---- MODULE Spec2Model ----
(***************************************************************************)
(* AstroLink 4 Pi focuser driver (astrolink4pi.cpp): the motion controller *)
(* (MoveAbsFocuser, AbortFocuser, SyncFocuser, the FOCUS_MAX handler, the  *)
(* destructor) run by the single-threaded INDI event loop, and the motion  *)
(* worker thread made by getMotorThread.                                   *)
(*                                                                         *)
(* The event loop is one process (position mpc) and the worker thread is   *)
(* another (position wpc).  A handler that waits for the worker            *)
(* (_motionThread.join()) is cut at the join; everything else is cut only  *)
(* where the two threads read or write the same field:                     *)
(*   FocusAbsPosNP[0].value   (Position)   both threads                    *)
(*   _abort                                event loop writes, worker reads *)
(*   EN_PIN / DECAY_PIN       (setCurrent) both threads                    *)
(*   FocusHoldSP / StepperCurrentNP        event loop writes, worker reads *)
(*   FocusReverseSP                        event loop writes, worker reads *)
(*   lastTemperature                       both threads                    *)
(* Positions are scaled down: UIntMod stands for the 2^32 of uint32_t and  *)
(* ProgressInterval for the 100 of the progress test (line 987).           *)
(*                                                                         *)
(* Also modelled, each under a specification of its own: the resolution    *)
(* handler (SpecResolution), the reverse setting (SpecReverse), thermal    *)
(* compensation (SpecThermal), the holding-power and current handlers      *)
(* (SpecHold) and the TSL2591 light-sensor state machine (SpecLight).      *)
(***************************************************************************)
EXTENDS Integers, Naturals, FiniteSets, Sequences, TLC

\* ---------------------------------------------------------------- bounds
\* uint32_t arithmetic of targetTicks/currentPos is modulo UIntMod.
UIntMod == 8
\* the worker publishes currentPos when currentPos % ProgressInterval == 0.
ProgressInterval == 2
\* largest FOCUS_MAX value a client sets (FocusAbsPosNP[0].max).
MaxPositionBound == 4
\* largest backlash value a client sets (FocusBacklashNP[0].value).
MaxBacklash == 2

\* TemperatureCoefN[0].value is counted in 1/CoefUnit steps per degree.
CoefUnit == 4

\* The light sensor, scaled down: AdcTime stands for the 750 ms of
\* TSL2591_ADC_TIME, MinCycles for the 5, MaxCycles for the 150 and
\* VisThreshold for the 500 of line 1468.
AdcTime == 3
MinCycles == 2
MaxCycles == 4
VisThreshold == 3
\* longest time between two calls of readTSL(), and the last instant modelled
MaxTick == 2
MaxTime == 30
\* the last instant at which a recovery of the light sensor is followed
RecoverBy == 4
\* most handles of the light sensor followed
MaxHandles == 1
\* largest count read from a channel
MaxSample == 3
\* The poll scheduler, scaled down: IntMod stands for the 2^32 values of
\* the int of millis(), the periods for TEMPERATURE_UPDATE_TIMEOUT (5 s),
\* TEMPERATURE_COMPENSATION_TIMEOUT (30 s), SYSTEM_UPDATE_PERIOD (1 s),
\* FAN_PERIOD (20 s) and the first fan update (3 s); MaxElapsed is the last
\* instant modelled
IntMod == 16
TempPeriod == 2
CompPeriod == 4
SysPeriod == 1
FanPeriod == 3
FanFirst == 2
MaxElapsed == 20
\* The power sensor, scaled down: ByteMod stands for the 256 values of a
\* byte of readBuf; MaxPowerTicks is the number of readPower() calls followed.
ByteMod == 4
MaxPowerTicks == 13

\* ---------------------------------------------------------------- inputs
\* values of FOCUS_MAX
MaxPositions == {MaxPositionBound - 1, MaxPositionBound}
\* targetTicks of a move request: in range and out of range
Targets == 0 .. (MaxPositionBound + 1)
\* ticks of a sync request
SyncTicks == {1, MaxPositionBound + 1}
\* FocusHoldSP selections (0 = HOLD_0, the default of line 273)
HoldPowers == {0}
\* values of FOCUS_BACKLASH_STEPS
BacklashValues == {0, MaxBacklash}
\* FocusHoldSP selections a client makes (0 = HOLD_0, 3 = HOLD_60)
HoldSelections == {0, 3}
\* counts read from a channel of the TSL2591
Samples == 0 .. MaxSample
\* temperatures read by TimerHit, in degrees
Temperatures == {-1, 0, 2}
\* temperature coefficients, in 1/CoefUnit steps per degree
CoefValues == {1, CoefUnit - 1, -(CoefUnit + 2)}
\* steps per critical focus zone
CfzValues == {0, 2}

VARIABLES
    Position,       \* FocusAbsPosNP[0].value
    FocusAbsMax,    \* FocusAbsPosNP[0].max (== FocusMaxPosNP[0].value)
    FocusBacklash,  \* FocusBacklashNP[0].value
    lastDirection,  \* member lastDirection: 0 before the first move
    backlashTicksRemaining, \* member backlashTicksRemaining
    abortFlag,      \* member _abort
    enPin,          \* EN_PIN: 0 = driver output enabled
    decayPin,       \* DECAY_PIN: 1 = fast decay (driving)
    savedPos,       \* content of the position file (savePosition)
    resolution,     \* member resolution: microsteps per full step
    holdPower,      \* getHoldPower(): 0..5, the FocusHoldSP selection
    mpc,            \* event loop: position inside the handler it runs
    mTarget,        \* targetTicks of the MoveAbsFocuser call in progress
    ret,            \* status returned by the last handler that returned
    wpc,            \* worker thread: none / init / test / body / done
    targetPos,      \* worker argument targetPos
    motorDirection, \* worker local motorDirection
    currentPos,     \* worker local currentPos
    backlashLeft,   \* worker argument backlashTicksRemaining (its copy)
    threads,        \* started threads not joined yet
    startPos,       \* history: currentPos read at line 984
    budget,         \* history: backlash budget handed to the worker
    counted,        \* history: pulses of this worker that advanced currentPos
    uncounted,      \* history: pulses of this worker that did not
    sawAbort,       \* history: _abort was set while this worker was active
    pulsesAfterAbort, \* history: pulses of this worker since _abort was set
    overwritten,    \* history: SyncFocuser wrote Position after this worker's exit
    okTarget,       \* history: target of the last call answered "already there",
                    \*   -1 once any later request has been made
    completedDirection, \* history: direction of the last worker that exited
                    \*   with currentPos == targetPos, 0 before
    motorCurrent,   \* motor current set by setCurrent, in fifths of StepperCurrentN
    wHold,          \* worker: getHoldPower() as evaluated by its setCurrent(true)
    mcaller,        \* handler that called MoveAbsFocuser: client/resolution/thermal
    lastRes,        \* resolution handler local last_resolution (0 before its first run)
    posAdj,         \* resolution handler local position_adjustment
    posBefore,      \* history: Position when the resolution handler was entered
    relCalls,       \* history: calls of MoveRelFocuser so far, modulo 2
    relDelta,       \* history: the signed ticks of the last MoveRelFocuser call
    FocusReverse,   \* FocusReverseSP[INDI_ENABLED] is ISS_ON
    dirPin,         \* DIR_PIN level (claimed at 0 by Connect, line 138)
    reverseAtSpawn, \* history: FocusReverse when this worker was spawned
    dirLevels,      \* history: DIR_PIN levels this worker has driven
    FocusTemperature,      \* FocusTemperatureN[0].value
    lastTemperature,       \* member lastTemperature
    TemperatureCompensate, \* TemperatureCompensateS[0].s == ISS_ON
    TemperatureCoef,       \* TemperatureCoefN[0].value, in 1/CoefUnit steps per degree
    stepsPerCfz,           \* FocuserInfoN[FOC_STEPS_CFZ].value
    thermalMoved,   \* history: the last temperatureCompensation() called MoveAbsFocuser
    TSLmode,        \* member TSLmode
    adcStartTime,   \* member adcStartTime, 0 = no integration started
    now,            \* millis()
    niter,          \* member niter
    fullCumulative, \* member fullCumulative
    irCumulative,   \* member irCumulative
    tslAvailable,   \* value returned by the last readTSL(): "true", "false",
                    \*   "none" before the first call
    tslOpened,      \* history: the last readTSL() got a handle from lgI2cOpen
    tslRead,        \* history: the last readTSL() read the two channels
    tslPublished,   \* history: the last readTSL() set SQM_READING
    tslCorrupt,     \* history: the last readTSL() read a sample with full < ir
    oldRead,        \* history: the last readSQM() called readOLD()
    seenCount,      \* history: non-corrupt samples read since the previous
                    \*   finalization, the finalizing tick's own included
    seenVisible,    \* history: the sum of full - ir over those samples
    tslHandles,     \* history: handles got from lgI2cOpen by readTSL() and not
                    \*   closed
    poweredAt,      \* sensor: millis() of the power-on command it integrates
                    \*   from, 0 when it is powered off, re-initialised or lost
    busHealthy,     \* environment: from now on the light sensor answers: the bus
                    \*   opens, every write succeeds, no sample has full < ir
    elapsed,        \* environment: milliseconds since the first call of millis()
    connected,      \* isConnected()
    timerArmed,     \* a poll timer set by SetTimer(POLL_PERIOD) is pending
    nextTemperatureRead,         \* member nextTemperatureRead
    nextTemperatureCompensation, \* member nextTemperatureCompensation
    nextSystemRead, \* member nextSystemRead
    nextFanUpdate,  \* member nextFanUpdate
    dueTemperature, \* history: the instant (of elapsed) the temperature read
                    \*   was scheduled for
    dueCompensation, \* history: the same for thermal compensation
    ranTasks,       \* history: the cadenced tasks the last TimerHit ran
    calledSensors,  \* history: the acquirers the last TimerHit invoked
    temperatureAlert, \* FocusTemperatureNP.s == IPS_ALERT
    powerIndex,     \* member powerIndex
    PowerVin,       \* PowerReadingsN[POW_VIN].value, in conversion counts
    PowerVreg,      \* PowerReadingsN[POW_VREG].value, in conversion counts
    PowerItot,      \* PowerReadingsN[POW_ITOT].value, in conversion counts
    energyAs,       \* member energyAs, in counts x 0.4 s
    energyWs,       \* member energyWs, in counts x counts x 0.4 s
    PowerStatus,    \* PowerReadingsNP.s
    adcChannel,     \* converter: channel of the conversion it holds, -1 before
                    \*   the first trigger write it has received
    convFresh,      \* history: the write of the last trigger tick succeeded
    powerOpened,    \* history: the last readPower() got a handle from lgI2cOpen
    powerFailed,    \* history: a write or read of the last readPower() failed
    powerTicks,     \* history: calls of readPower() so far
    tickLog         \* history: powerIndex at entry of the last (up to 6) calls
                    \*   of readPower() that opened the bus

vars == <<Position, FocusAbsMax, FocusBacklash, lastDirection,
          backlashTicksRemaining, abortFlag, enPin, decayPin, savedPos,
          resolution, holdPower, mpc, mTarget, ret, wpc, targetPos, motorDirection, currentPos,
          backlashLeft, threads, startPos, budget, counted, uncounted, sawAbort, pulsesAfterAbort, overwritten,
          okTarget, completedDirection, motorCurrent, wHold, mcaller,
          lastRes, posAdj, posBefore, relCalls, relDelta, FocusReverse, dirPin,
          reverseAtSpawn,
          dirLevels, FocusTemperature, lastTemperature, TemperatureCompensate,
          TemperatureCoef, stepsPerCfz, thermalMoved, TSLmode, adcStartTime,
          now, niter, fullCumulative, irCumulative, tslAvailable, tslOpened,
          tslRead, tslPublished, tslCorrupt, oldRead, poweredAt, seenCount,
          seenVisible, tslHandles, busHealthy, elapsed, connected, timerArmed,
          nextTemperatureRead, nextTemperatureCompensation, nextSystemRead,
          nextFanUpdate, dueTemperature, dueCompensation, ranTasks,
          calledSensors, temperatureAlert,
          powerIndex, PowerVin, PowerVreg, PowerItot, energyAs, energyWs,
          PowerStatus, adcChannel, convFresh, powerOpened, powerFailed,
          powerTicks, tickLog>>

\* event-loop side settings
cfgVars == <<FocusAbsMax, FocusBacklash, resolution, holdPower>>
\* members written by MoveAbsFocuser only
dirVars == <<lastDirection, backlashTicksRemaining>>
pinVars == <<enPin, decayPin, motorCurrent>>
\* the worker's arguments and locals
workerVars == <<targetPos, motorDirection, currentPos, backlashLeft>>
\* history of the current worker
histVars == <<startPos, budget, counted, uncounted, pulsesAfterAbort>>
\* history of MoveRelFocuser
relVars == <<relCalls, relDelta>>
\* locals and history of the handlers that call MoveAbsFocuser: the
\* resolution handler and MoveRelFocuser
resVars == <<lastRes, posAdj, posBefore, relVars>>
\* the reverse setting and the direction line
revVars == <<FocusReverse, dirPin>>
\* history of the direction line under the current worker
revHist == <<reverseAtSpawn, dirLevels>>
\* settings of thermal compensation and the temperature read by TimerHit
thermCfg == <<FocusTemperature, temperatureAlert, TemperatureCompensate,
              TemperatureCoef, stepsPerCfz, thermalMoved>>
\* the power sensor: the stored readings and the energy accumulators
powerValues == <<PowerVin, PowerVreg, PowerItot, energyAs, energyWs>>
\* the power acquirer, its converter and its history
powerVars == <<powerIndex, powerValues, PowerStatus, adcChannel, convFresh,
               powerOpened, powerFailed, powerTicks, tickLog>>
\* history of the samples read by readTSL()
sampleHist == <<seenCount, seenVisible>>
\* history of the ticks of readTSL()
tickHist == <<sampleHist, tslHandles>>
\* the light-sensor state machine
tslVars == <<TSLmode, adcStartTime, now, niter, fullCumulative, irCumulative,
             tslAvailable, tslOpened, tslRead, tslPublished, tslCorrupt,
             oldRead, poweredAt, tickHist>>
\* the due times of TimerHit
dueVars == <<nextTemperatureRead, nextTemperatureCompensation, nextSystemRead,
             nextFanUpdate>>
\* the poll scheduler and its history
pollVars == <<elapsed, connected, timerArmed, dueVars, dueTemperature,
              dueCompensation, ranTasks, calledSensors>>
\* the sensors polled by TimerHit, their buses and its scheduler
lightVars == <<tslVars, busHealthy, powerVars, pollVars>>
\* what the handlers and the worker of lines 900-1028 leave alone, but for
\* the caller of MoveAbsFocuser and the history of the direction line
handlerSide == <<wHold, resVars, revVars, thermCfg, lastTemperature, lightVars>>
sideVars == <<mcaller, revHist, handlerSide>>
\* everything but the light sensor
motionVars == <<Position, FocusAbsMax, FocusBacklash, lastDirection,
                backlashTicksRemaining, abortFlag, enPin, decayPin, savedPos,
                resolution, holdPower, mpc, mTarget, ret, wpc, targetPos,
                motorDirection, currentPos, backlashLeft, threads, startPos,
                budget, counted, uncounted, sawAbort, pulsesAfterAbort,
                overwritten, okTarget, completedDirection, motorCurrent, wHold,
                mcaller, lastRes, posAdj, posBefore, relVars, FocusReverse, dirPin,
                reverseAtSpawn, dirLevels, FocusTemperature, lastTemperature,
                TemperatureCompensate, TemperatureCoef, stepsPerCfz,
                thermalMoved, temperatureAlert, pollVars>>

\* ---------------------------------------------------------------- helpers
\* #define MAX_RESOLUTION 32
MAX_RESOLUTION == 32

\* FocusAbsPosNP[0].getMin(): set to 0 in initProperties and never changed
FocusAbsMin == 0

\* uint32_t value of an integer
U32(n) == n % UIntMod

\* std::thread::joinable(): started and not joined
Joinable == threads > 0

\* the worker thread has been spawned and has not run off its lambda yet
WorkerActive == wpc \in {"init", "test", "body"}

\* line 919: the range test of MoveAbsFocuser
OutOfRangeNoUpper(t) == t < FocusAbsMin
OutOfRange(t) == t < FocusAbsMin \/ t > FocusAbsMax

\* line 925: the "already there" test against the published position p
AlreadyThere(t, p) == t = p

\* lines 939-950: direction of a move to t, seen from the published position p
NewDirection(t, p) == IF t > p THEN 1 ELSE -1

\* lines 953-961: the backlash budget of a move in direction d
BacklashBudgetAlways(d, last, cfg) == cfg
BacklashBudget(d, last, cfg) ==
    IF last # 0 /\ d # last /\ cfg # 0 THEN cfg ELSE 0

\* ---------------------------------------------------------------- Init
\* the event loop idle, no thread made yet, no history
InitController ==
    /\ lastDirection = 0
    /\ backlashTicksRemaining = 0
    /\ abortFlag = FALSE
    /\ mpc = "idle"
    /\ mcaller = "client"
    /\ mTarget = 0
    /\ ret = "none"
    /\ wpc = "none"
    /\ wHold = 0
    /\ targetPos = 0
    /\ motorDirection = 0
    /\ currentPos = 0
    /\ backlashLeft = 0
    /\ threads = 0
    /\ startPos = 0
    /\ budget = 0
    /\ counted = 0
    /\ uncounted = 0
    /\ sawAbort = FALSE
    /\ pulsesAfterAbort = 0
    /\ overwritten = FALSE
    /\ okTarget = -1
    /\ completedDirection = 0
    /\ lastRes = 0
    /\ posAdj = 0
    /\ posBefore = 0
    /\ relCalls = 0
    /\ relDelta = 0
    /\ reverseAtSpawn = FALSE
    /\ dirLevels = {}
    /\ thermalMoved = FALSE

\* Connect (lines 130-138): output disabled, slow decay, no PWM, DIR_PIN 0
InitPins ==
    /\ enPin = 1
    /\ decayPin = 0
    /\ motorCurrent = 0
    /\ dirPin = 0

\* initProperties defaults: reverse off, temperature 0, compensation disabled
\* (lines 289-298)
InitSettings ==
    /\ FocusReverse = FALSE
    /\ FocusTemperature = 0
    /\ temperatureAlert = FALSE
    /\ lastTemperature = 0
    /\ TemperatureCompensate = FALSE
    /\ TemperatureCoef = 0
    /\ stepsPerCfz = 0

\* the power sensor before the first readPower(): readings 0 (lines
\* 365-370), status IPS_IDLE (line 371), index and accumulators 0
InitPower ==
    /\ powerIndex = 0
    /\ PowerVin = 0
    /\ PowerVreg = 0
    /\ PowerItot = 0
    /\ energyAs = 0
    /\ energyWs = 0
    /\ PowerStatus = "IDLE"
    /\ adcChannel = -1
    /\ convFresh = FALSE
    /\ powerOpened = FALSE
    /\ powerFailed = FALSE
    /\ powerTicks = 0
    /\ tickLog = <<>>

\* Connect (lines 188-194): the due times are set
\* from millis(), whose first call defines its zero (line 1342), and the
\* poll timer is started
InitPoll ==
    /\ elapsed = 0
    /\ connected = TRUE
    /\ timerArmed = TRUE
    /\ nextTemperatureRead = TempPeriod
    /\ nextTemperatureCompensation = CompPeriod
    /\ nextSystemRead = SysPeriod
    /\ nextFanUpdate = FanFirst
    /\ dueTemperature = TempPeriod
    /\ dueCompensation = CompPeriod
    /\ ranTasks = {}
    /\ calledSensors = {}

\* the light sensor before the first readTSL()
InitLight ==
    /\ TSLmode = "NOTAVAILABLE"
    /\ adcStartTime = 0
    /\ now = 1
    /\ niter = 0
    /\ fullCumulative = 0
    /\ irCumulative = 0
    /\ tslAvailable = "none"
    /\ tslOpened = FALSE
    /\ tslRead = FALSE
    /\ tslPublished = FALSE
    /\ tslCorrupt = FALSE
    /\ oldRead = FALSE
    /\ poweredAt = 0
    /\ seenCount = 0
    /\ seenVisible = 0
    /\ tslHandles = 0
    /\ busHealthy = FALSE
    /\ InitPower
    /\ InitPoll

Init ==
    /\ FocusAbsMax \in MaxPositions
    /\ Position \in {0, MaxPositionBound - 1}
    /\ FocusBacklash \in BacklashValues
    /\ resolution = 1
    /\ holdPower \in HoldPowers
    /\ savedPos = (Position * MAX_RESOLUTION) \div resolution
    /\ InitController
    /\ InitPins
    /\ InitSettings
    /\ InitLight

\* ------------------------------------------------- setCurrent (1207-1251)
\* the configured current StepperCurrentN[0].value, in fifths of itself
FullCurrent == 5
\* setCurrent(false): output enabled, fast decay, full current
Driving == enPin = 0 /\ decayPin = 1 /\ motorCurrent = FullCurrent
\* setCurrent(true): slow decay, output enabled iff the holding power is > 0,
\* current getHoldPower() * StepperCurrentN[0].value / 5
HoldingEn(hp) == IF hp > 0 THEN 0 ELSE 1
Holding ==
    enPin = HoldingEn(holdPower) /\ decayPin = 0 /\ motorCurrent = holdPower

\* ------------------------------------------------- MoveAbsFocuser (917-976)
\* where the event loop continues when the MoveAbsFocuser called by a handler
\* returns: line 763 (resolution), line 1186 (thermal), the event loop
ReturnPc(caller) ==
    IF caller = "resolution" THEN "res_scale"
    ELSE IF caller = "thermal" THEN "th_reg"
    ELSE "idle"

\* lines 919-934: the range test, the "already there" test, setCurrent(false);
\* called by `caller` with the event loop at `at`
MoveAbsFocuser_Call(t, caller, at) ==
    /\ mpc = at
    /\ IF OutOfRange(t)
         THEN /\ ret' = "MoveAbs:ALERT"
              /\ okTarget' = -1
              /\ mpc' = ReturnPc(caller)
              /\ UNCHANGED <<pinVars, mTarget, mcaller>>
         ELSE IF AlreadyThere(t, Position)
         THEN /\ ret' = "MoveAbs:OK"
              /\ okTarget' = t
              /\ mpc' = ReturnPc(caller)
              /\ UNCHANGED <<pinVars, mTarget, mcaller>>
         ELSE /\ enPin' = 0
              /\ decayPin' = 1
              /\ motorCurrent' = FullCurrent
              /\ mpc' = "mv_dir"
              /\ mTarget' = t
              /\ mcaller' = caller
              /\ okTarget' = -1
              /\ UNCHANGED ret
    /\ UNCHANGED <<Position, savedPos, abortFlag, wpc, threads, sawAbort,
                   overwritten, completedDirection, cfgVars, dirVars,
                   workerVars, histVars, wHold, revVars, revHist,
                   lastTemperature, lightVars>>

\* MoveAbsFocuser called by the event loop for a client's request
MoveAbsFocuser_Check(t) ==
    /\ MoveAbsFocuser_Call(t, "client", "idle")
    /\ UNCHANGED <<resVars, thermCfg>>

\* line 913: (int32_t)ticks
S32(t) == IF 2 * (t % UIntMod) >= UIntMod THEN (t % UIntMod) - UIntMod ELSE t % UIntMod

\* line 913: the signed ticks added to the position
SignedTicks(dir, ticks) == S32(ticks) * (IF dir = "INWARD" THEN -1 ELSE 1)

\* line 913: the sum is a double; its conversion to uint32_t is undefined
\* below 0 and from 2^32 on: builds wrap it or saturate it
ToU32(n) ==
    IF n < 0 THEN {U32(n), 0}
    ELSE IF n >= UIntMod THEN {U32(n), UIntMod - 1}
    ELSE {n}

\* lines 911-915: MoveRelFocuser(dir, ticks) calls MoveAbsFocuser(targetTicks)
MoveRelFocuser(dir, ticks) ==
    /\ relCalls' = 1 - relCalls
    /\ relDelta' = SignedTicks(dir, ticks)
    /\ \E t \in ToU32(Position + SignedTicks(dir, ticks)) :
          MoveAbsFocuser_Call(t, "client", "idle")
    /\ UNCHANGED <<lastRes, posAdj, posBefore, thermCfg>>

\* lines 936-969: direction from the published position, backlash budget,
\* lastDirection, and _abort = true when a thread is joinable
MoveAbsFocuser_Direction ==
    /\ mpc = "mv_dir"
    /\ LET d == NewDirection(mTarget, Position) IN
         /\ backlashTicksRemaining' = BacklashBudget(d, lastDirection, FocusBacklash)
         /\ lastDirection' = d
    /\ abortFlag' = IF Joinable THEN TRUE ELSE abortFlag
    /\ sawAbort' = (sawAbort \/ (Joinable /\ WorkerActive))
    /\ mpc' = "mv_join"
    /\ UNCHANGED <<Position, savedPos, pinVars, mTarget, ret, wpc, threads,
                   overwritten, okTarget, completedDirection, cfgVars,
                   workerVars, histVars, sideVars>>

\* line 970 (and 905, 105): join() returns once the thread has run off its lambda
JoinReadyNoWait == TRUE
JoinReady == ~Joinable \/ wpc = "done"

\* threads left after the join of lines 967-971 (902-906, 102-106)
JoinedSkip(n) == n
Joined(n) == IF n > 0 THEN n - 1 ELSE n

\* line 973: _abort when the new thread is made
FlagAtSpawnKept == abortFlag
FlagAtSpawn == FALSE

\* lines 970-975: the join returns, _abort = false, the new thread is made,
\* MoveAbsFocuser returns IPS_BUSY to its caller
MoveAbsFocuser_Spawn ==
    /\ mpc = "mv_join"
    /\ JoinReady
    /\ abortFlag' = FlagAtSpawn
    /\ threads' = Joined(threads) + 1
    /\ wpc' = "init"
    /\ targetPos' = mTarget
    /\ motorDirection' = lastDirection
    /\ backlashLeft' = backlashTicksRemaining
    /\ currentPos' = 0
    /\ startPos' = 0
    /\ budget' = backlashTicksRemaining
    /\ counted' = 0
    /\ uncounted' = 0
    /\ pulsesAfterAbort' = 0
    /\ sawAbort' = FALSE
    /\ overwritten' = FALSE
    /\ reverseAtSpawn' = FocusReverse
    /\ dirLevels' = {}
    /\ mpc' = ReturnPc(mcaller)
    /\ mcaller' = "client"
    /\ mTarget' = 0
    /\ ret' = "MoveAbs:BUSY"
    /\ UNCHANGED <<Position, savedPos, pinVars, okTarget, completedDirection,
                   cfgVars, dirVars, handlerSide>>

\* ------------------------------------------------- getMotorThread (978-1028)
\* line 984: currentPos = FocusAbsPosNP[0].getValue()
WorkerInit ==
    /\ wpc = "init"
    /\ currentPos' = U32(Position)
    /\ startPos' = U32(Position)
    /\ wpc' = "test"
    /\ UNCHANGED <<Position, savedPos, abortFlag, pinVars, mpc, mTarget, ret,
                   threads, sawAbort, overwritten, okTarget, completedDirection,
                   cfgVars, dirVars, targetPos, motorDirection, backlashLeft,
                   budget, counted, uncounted, pulsesAfterAbort, sideVars>>

\* line 985: the loop condition
LoopConditionNoAbort == currentPos # targetPos
LoopCondition == currentPos # targetPos /\ ~abortFlag

\* line 985, condition true: the worker enters the loop body
WorkerLoop ==
    /\ wpc = "test"
    /\ LoopCondition
    /\ wpc' = "body"
    /\ UNCHANGED <<Position, savedPos, abortFlag, pinVars, mpc, mTarget, ret,
                   threads, sawAbort, overwritten, okTarget, completedDirection,
                   cfgVars, dirVars, workerVars, histVars, sideVars>>

\* lines 987-992: the progress update
Published(cur, pos) == IF cur % ProgressInterval = 0 THEN cur ELSE pos

\* lines 1005-1012: a pulse is counted iff no backlash budget is left
CountsPulseAlways(left) == TRUE
CountsPulse(left) == left <= 0

\* lines 993-1000: the DIR_PIN level of a pulse in direction d
DirLevel(rev, d) ==
    IF rev THEN (IF d < 0 THEN 1 ELSE 0) ELSE (IF d < 0 THEN 0 ELSE 1)

\* lines 987-1013: progress update, one step pulse, and the pulse counted
\* (currentPos += motorDirection) or taken from the budget
WorkerBodyWrites ==
    /\ wpc = "body"
    /\ Position' = Published(currentPos, Position)
    /\ IF CountsPulse(backlashLeft)
         THEN /\ currentPos' = U32(currentPos + motorDirection)
              /\ counted' = counted + 1
              /\ UNCHANGED <<backlashLeft, uncounted>>
         ELSE /\ backlashLeft' = backlashLeft - 1
              /\ uncounted' = uncounted + 1
              /\ UNCHANGED <<currentPos, counted>>
    /\ pulsesAfterAbort' = IF abortFlag THEN pulsesAfterAbort + 1 ELSE pulsesAfterAbort
    /\ wpc' = "test"
    /\ UNCHANGED <<savedPos, abortFlag, pinVars, mpc, mTarget, ret, threads,
                   sawAbort, overwritten, okTarget, completedDirection, cfgVars,
                   dirVars, targetPos, motorDirection, startPos, budget,
                   mcaller, wHold, resVars, FocusReverse, reverseAtSpawn,
                   thermCfg, lastTemperature, lightVars>>

\* one pass of the loop body, the direction line left out
WorkerBody ==
    /\ WorkerBodyWrites
    /\ UNCHANGED <<dirPin, dirLevels>>

\* the same pass with the direction line of lines 993-1000
WorkerBody_Dir ==
    /\ WorkerBodyWrites
    /\ dirPin' = DirLevel(FocusReverse, motorDirection)
    /\ dirLevels' = dirLevels \cup {DirLevel(FocusReverse, motorDirection)}

\* line 1018: the position the exiting worker publishes
FinalPositionTarget == targetPos
FinalPositionStale == Position
FinalPosition == currentPos

\* lines 1016-1025: final position, savePosition at MAX_RESOLUTION,
\* lastTemperature
ExitPublish ==
    /\ Position' = FinalPosition
    /\ savedPos' = (FinalPosition * MAX_RESOLUTION) \div resolution
    /\ lastTemperature' = FocusTemperature

\* lines 985 (condition false) and 1016-1026: ExitPublish and setCurrent(true)
WorkerExitWrites ==
    /\ wpc = "test"
    /\ ~LoopCondition
    /\ ExitPublish
    /\ enPin' = HoldingEn(holdPower)
    /\ decayPin' = 0
    /\ motorCurrent' = holdPower
    /\ wpc' = "done"
    /\ UNCHANGED <<abortFlag, mpc, mTarget, ret, threads, sawAbort, overwritten,
                   okTarget, cfgVars, dirVars, workerVars, histVars, mcaller,
                   wHold, resVars, revVars, revHist, thermCfg, lightVars>>

\* The exit cut where its setCurrent(true) has evaluated getHoldPower() and
\* has not written the outputs yet.
\* lines 985 (condition false), 1016-1025, and getHoldPower() of line 1213
WorkerExit_Publish ==
    /\ wpc = "test"
    /\ ~LoopCondition
    /\ ExitPublish
    /\ wHold' = holdPower
    /\ wpc' = "exit"
    /\ UNCHANGED <<abortFlag, pinVars, mpc, mTarget, ret, threads, sawAbort,
                   overwritten, okTarget, completedDirection, cfgVars, dirVars,
                   workerVars, histVars, mcaller, resVars, revVars, revHist,
                   thermCfg, lightVars>>

\* lines 1213-1222: EN_PIN, DECAY_PIN and the current are written, and the
\* thread runs off its lambda
WorkerExit_Current ==
    /\ wpc = "exit"
    /\ enPin' = HoldingEn(wHold)
    /\ decayPin' = 0
    /\ motorCurrent' = wHold
    /\ wHold' = 0
    /\ wpc' = "done"
    /\ UNCHANGED <<Position, savedPos, abortFlag, mpc, mTarget, ret, threads,
                   sawAbort, overwritten, okTarget, completedDirection, cfgVars,
                   dirVars, workerVars, histVars, mcaller, resVars, revVars,
                   revHist, thermCfg, lastTemperature, lightVars>>

WorkerExit ==
    /\ WorkerExitWrites
    /\ UNCHANGED completedDirection

\* the same exit, with the history of completed moves recorded
WorkerExit_Recorded ==
    /\ WorkerExitWrites
    /\ completedDirection' =
         IF currentPos = targetPos THEN motorDirection ELSE completedDirection

\* a thread that was joined and not replaced: its arguments and locals are gone
ThreadGone ==
    /\ targetPos' = 0
    /\ motorDirection' = 0
    /\ currentPos' = 0
    /\ backlashLeft' = 0
    /\ startPos' = 0
    /\ budget' = 0
    /\ counted' = 0
    /\ uncounted' = 0
    /\ pulsesAfterAbort' = 0
    /\ sawAbort' = FALSE
    /\ overwritten' = FALSE
    /\ reverseAtSpawn' = FALSE
    /\ dirLevels' = {}

\* the thread object after join(): no thread if it had run off its lambda
AfterJoin ==
    IF wpc = "done"
      THEN wpc' = "none" /\ ThreadGone
      ELSE UNCHANGED <<wpc, sawAbort, overwritten, workerVars, histVars, revHist>>

\* ------------------------------------------------- AbortFocuser (900-909)
\* lines 902-904: _abort = true when a thread is joinable; else return true
AbortFocuser_Set ==
    /\ mpc = "idle"
    /\ IF Joinable
         THEN /\ abortFlag' = TRUE
              /\ sawAbort' = (sawAbort \/ WorkerActive)
              /\ mpc' = "ab_join"
              /\ UNCHANGED ret
         ELSE /\ ret' = "Abort:TRUE"
              /\ UNCHANGED <<abortFlag, sawAbort, mpc>>
    /\ okTarget' = -1
    /\ UNCHANGED <<Position, savedPos, pinVars, mTarget, wpc, threads,
                   overwritten, completedDirection, cfgVars, dirVars,
                   workerVars, histVars, sideVars>>

\* lines 905-908: the join returns, return true
AbortFocuser_Join ==
    /\ mpc = "ab_join"
    /\ JoinReady
    /\ threads' = Joined(threads)
    /\ AfterJoin
    /\ mpc' = "idle"
    /\ ret' = "Abort:TRUE"
    /\ UNCHANGED <<Position, savedPos, abortFlag, pinVars, mTarget, okTarget,
                   completedDirection, cfgVars, dirVars, mcaller, handlerSide>>

\* ------------------------------------------------- SyncFocuser (1148-1157)
SyncFocuser(ticks) ==
    /\ mpc = "idle"
    /\ Position' = ticks
    /\ savedPos' = ticks
    /\ ret' = "Sync:TRUE"
    /\ overwritten' = (wpc = "done")
    /\ okTarget' = -1
    /\ UNCHANGED <<abortFlag, pinVars, mpc, mTarget, wpc, threads, sawAbort,
                   completedDirection, cfgVars, dirVars, workerVars, histVars,
                   sideVars>>

\* ------------------------------------------------- FOCUS_MAX (493-503)
SetMaxPosition(v) ==
    /\ mpc = "idle"
    /\ FocusAbsMax' = v
    /\ ret' = "Set:TRUE"
    /\ okTarget' = -1
    /\ UNCHANGED <<Position, savedPos, abortFlag, pinVars, mpc, mTarget, wpc,
                   threads, sawAbort, overwritten, completedDirection,
                   FocusBacklash, resolution, holdPower, dirVars, workerVars,
                   histVars, sideVars>>

\* ------------------------------------------------- SetFocuserBacklash (1159-1163)
SetFocuserBacklash(steps) ==
    /\ mpc = "idle"
    /\ FocusBacklash' = steps
    /\ ret' = "Set:TRUE"
    /\ okTarget' = -1
    /\ UNCHANGED <<Position, savedPos, abortFlag, pinVars, mpc, mTarget, wpc,
                   threads, sawAbort, overwritten, completedDirection,
                   FocusAbsMax, resolution, holdPower, dirVars, workerVars,
                   histVars, sideVars>>

\* ------------------------------------------------- ~AstroLink4Pi (100-107)
\* lines 102-104
Destructor_Abort ==
    /\ mpc = "idle"
    /\ IF Joinable
         THEN /\ abortFlag' = TRUE
              /\ sawAbort' = (sawAbort \/ WorkerActive)
              /\ mpc' = "dt_join"
         ELSE /\ mpc' = "destroyed"
              /\ UNCHANGED <<abortFlag, sawAbort>>
    /\ okTarget' = -1
    /\ UNCHANGED <<Position, savedPos, pinVars, mTarget, ret, wpc, threads,
                   overwritten, completedDirection, cfgVars, dirVars,
                   workerVars, histVars, sideVars>>

\* line 105
Destructor_Join ==
    /\ mpc = "dt_join"
    /\ JoinReady
    /\ threads' = Joined(threads)
    /\ AfterJoin
    /\ mpc' = "destroyed"
    /\ UNCHANGED <<Position, savedPos, abortFlag, pinVars, mTarget, ret,
                   okTarget, completedDirection, cfgVars, dirVars, mcaller,
                   handlerSide>>

\* ------------------------------------------------- FocusResolutionSP (716-791)
\* line 748: last_resolution * (Position / last_resolution
\*                              - (int)Position / last_resolution)
PositionAdjustment(p, last) == p - last * (p \div last)

\* lines 751-758: the signed displacement of the corrective move
DisplacementUp(adj, last) == last - adj
Displacement(adj, last) == IF 2 * adj < last THEN -adj ELSE last - adj

\* lines 766-783: (int)value * resolution / last_resolution
Rescaled(v, res, last) == (v * res) \div last

\* lines 719-749: last_resolution, the new resolution, position_adjustment and
\* the test of line 749.  The guard keeps the rescaled Position below UIntMod.
Resolution_Select(newRes) ==
    /\ mpc = "idle"
    /\ Rescaled(Position, newRes, resolution) < UIntMod
    /\ lastRes' = resolution
    /\ resolution' = newRes
    /\ posAdj' = PositionAdjustment(Position, resolution)
    /\ posBefore' = Position
    /\ mpc' = IF newRes < resolution /\ posAdj' > 0 THEN "res_adjust" ELSE "res_scale"
    /\ okTarget' = -1
    /\ UNCHANGED <<Position, savedPos, abortFlag, pinVars, mTarget, ret, wpc,
                   threads, sawAbort, overwritten, completedDirection,
                   FocusAbsMax, FocusBacklash, holdPower, dirVars, workerVars,
                   histVars, mcaller, wHold, revVars, revHist, thermCfg,
                   lastTemperature, lightVars, relVars>>

\* lines 751-760: the displacement and MoveAbsFocuser(Position + displacement)
Resolution_Adjust ==
    /\ mpc = "res_adjust"
    /\ posAdj' = Displacement(posAdj, lastRes)
    /\ MoveAbsFocuser_Call(U32(Position + posAdj'), "resolution", "res_adjust")
    /\ UNCHANGED <<lastRes, posBefore, relVars, thermCfg>>

\* lines 763-790: SetResolution, the rescaling of FocusAbsPosNP (value and
\* max) and FocusMaxPosNP, getFocuserInfo (steps per CFZ follow FocusMaxPosNP)
Resolution_Scale ==
    /\ mpc = "res_scale"
    /\ Position' = Rescaled(Position, resolution, lastRes)
    /\ FocusAbsMax' = Rescaled(FocusAbsMax, resolution, lastRes)
    /\ stepsPerCfz' = Rescaled(stepsPerCfz, resolution, lastRes)
    /\ overwritten' = (overwritten \/ wpc = "done")
    /\ posAdj' = 0
    /\ mpc' = "idle"
    /\ ret' = "Resolution:TRUE"
    /\ UNCHANGED <<savedPos, abortFlag, pinVars, mTarget, wpc, threads, sawAbort,
                   okTarget, completedDirection, FocusBacklash, resolution,
                   holdPower, dirVars, workerVars, histVars, mcaller, wHold,
                   lastRes, posBefore, relVars, revVars, revHist, FocusTemperature,
                   temperatureAlert,
                   TemperatureCompensate, TemperatureCoef, thermalMoved,
                   lastTemperature, lightVars>>

\* ------------------------------------------------- ReverseFocuser (1081-1092)
\* FOCUS_REVERSE_MOTION: ReverseFocuser logs and returns true, and the
\* framework stores the selection in FocusReverseSP
ReverseFocuser(enabled) ==
    /\ mpc = "idle"
    /\ FocusReverse' = enabled
    /\ ret' = "Reverse:TRUE"
    /\ okTarget' = -1
    /\ UNCHANGED <<Position, savedPos, abortFlag, pinVars, mTarget, mpc, wpc,
                   threads, sawAbort, overwritten, completedDirection, cfgVars,
                   dirVars, workerVars, histVars, mcaller, wHold, resVars,
                   dirPin, revHist, thermCfg, lastTemperature, lightVars>>

\* ------------------------------------------------- temperatureCompensation (1171-1190)
\* TimerHit, lines 860-879: the temperature read from the sensors
ReadTemperature(temp) ==
    /\ mpc = "idle"
    /\ FocusTemperature' = temp
    /\ temperatureAlert' = FALSE
    /\ UNCHANGED <<Position, savedPos, abortFlag, pinVars, mTarget, mpc, ret, wpc,
                   threads, sawAbort, overwritten, okTarget, completedDirection,
                   cfgVars, dirVars, workerVars, histVars, mcaller, wHold,
                   resVars, revVars, revHist, TemperatureCompensate,
                   TemperatureCoef, stepsPerCfz, thermalMoved, lastTemperature,
                   lightVars>>

\* TimerHit, lines 860-879, both readSHT() and readMLX() returned false: the
\* value is set to 0.0 and the state to IPS_ALERT
ReadTemperature_Failed ==
    /\ mpc = "idle"
    /\ FocusTemperature' = 0
    /\ temperatureAlert' = TRUE
    /\ UNCHANGED <<Position, savedPos, abortFlag, pinVars, mTarget, mpc, ret, wpc,
                   threads, sawAbort, overwritten, okTarget, completedDirection,
                   cfgVars, dirVars, workerVars, histVars, mcaller, wHold,
                   resVars, revVars, revHist, TemperatureCompensate,
                   TemperatureCoef, stepsPerCfz, thermalMoved, lastTemperature,
                   lightVars>>

\* lines 600-616: the TemperatureCompensateSP handler
SetTemperatureCompensate(enabled) ==
    /\ mpc = "idle"
    /\ TemperatureCompensate' = enabled
    /\ ret' = "Compensate:TRUE"
    /\ okTarget' = -1
    /\ UNCHANGED <<Position, savedPos, abortFlag, pinVars, mTarget, mpc, wpc,
                   threads, sawAbort, overwritten, completedDirection, cfgVars,
                   dirVars, workerVars, histVars, mcaller, wHold, resVars,
                   revVars, revHist, FocusTemperature,
                   temperatureAlert, TemperatureCoef,
                   stepsPerCfz, thermalMoved, lastTemperature, lightVars>>

\* lines 1178-1179: deltaPos, in 1/CoefUnit steps
DeltaPos(coef, temp, last) == coef * (temp - last)

\* the absolute value of an integer
Abs(n) == IF n >= 0 THEN n ELSE -n

\* line 1182: abs(deltaPos) > steps per CFZ / 2, deltaPos in 1/CoefUnit steps
ExceedsCfzAlways(d, cfz) == TRUE
ExceedsCfz(d, cfz) == 2 * Abs(d) > cfz * CoefUnit

\* line 1184: round(deltaPos), halves away from zero
Round(d) ==
    IF d >= 0 THEN (2 * d + CoefUnit) \div (2 * CoefUnit)
    ELSE -((2 * (-d) + CoefUnit) \div (2 * CoefUnit))

\* line 1185: the double Position + thermalAdjustment converted to the
\* uint32_t targetTicks; a negative double has no defined conversion: it wraps
\* (x86-64) or saturates to 0 (ARM)
ThermalTargets(n) == IF n < 0 THEN {U32(n), 0} ELSE {U32(n)}

\* line 1186: the temperature the compensator registers
RegisteredStale == lastTemperature
Registered == FocusTemperature

\* lines 1176-1185: the tests and the call of MoveAbsFocuser
TemperatureCompensation ==
    /\ mpc = "idle"
    /\ LET d == DeltaPos(TemperatureCoef, FocusTemperature, lastTemperature) IN
         IF /\ TemperatureCompensate
            /\ FocusTemperature # lastTemperature
            /\ ExceedsCfz(d, stepsPerCfz)
           THEN /\ thermalMoved' = TRUE
                /\ \E t \in ThermalTargets(Position + Round(d)) :
                      MoveAbsFocuser_Call(t, "thermal", "idle")
                /\ UNCHANGED <<resVars, FocusTemperature,
                   temperatureAlert, TemperatureCompensate,
                               TemperatureCoef, stepsPerCfz>>
           ELSE /\ thermalMoved' = FALSE
                /\ UNCHANGED <<Position, savedPos, abortFlag, pinVars, mTarget,
                               mpc, ret, wpc, threads, sawAbort, overwritten,
                               okTarget, completedDirection, cfgVars, dirVars,
                               workerVars, histVars, mcaller, wHold, resVars,
                               revVars, revHist, FocusTemperature,
                   temperatureAlert,
                               TemperatureCompensate, TemperatureCoef,
                               stepsPerCfz, lastTemperature, lightVars>>

\* line 1186: MoveAbsFocuser has returned; lastTemperature is registered
TemperatureCompensation_Register ==
    /\ mpc = "th_reg"
    /\ lastTemperature' = Registered
    /\ mpc' = "idle"
    /\ UNCHANGED <<Position, savedPos, abortFlag, pinVars, mTarget, ret, wpc,
                   threads, sawAbort, overwritten, okTarget, completedDirection,
                   cfgVars, dirVars, workerVars, histVars, mcaller, wHold,
                   resVars, revVars, revHist, thermCfg, lightVars>>

\* ------------------------------------------------- FocusHoldSP (706-714)
\* IUUpdateSwitch stores the selection, then setCurrent(true)
SetFocusHold(hold) ==
    /\ mpc = "idle"
    /\ holdPower' = hold
    /\ enPin' = HoldingEn(hold)
    /\ decayPin' = 0
    /\ motorCurrent' = hold
    /\ ret' = "Hold:TRUE"
    /\ okTarget' = -1
    /\ UNCHANGED <<Position, savedPos, abortFlag, mTarget, mpc, wpc, threads,
                   sawAbort, overwritten, completedDirection, FocusAbsMax,
                   FocusBacklash, resolution, dirVars, workerVars, histVars,
                   sideVars>>

\* ------------------------------------------------- StepperCurrentNP (572-581)
\* IUUpdateNumber stores the current limit, then setCurrent(true)
SetStepperCurrent ==
    /\ mpc = "idle"
    /\ enPin' = HoldingEn(holdPower)
    /\ decayPin' = 0
    /\ motorCurrent' = holdPower
    /\ ret' = "Current:TRUE"
    /\ okTarget' = -1
    /\ UNCHANGED <<Position, savedPos, abortFlag, mTarget, mpc, wpc, threads,
                   sawAbort, overwritten, completedDirection, cfgVars, dirVars,
                   workerVars, histVars, sideVars>>

\* ------------------------------------------------- readTSL (1413-1490)
\* The longest a healthy sensor takes from any state to a published reading:
\* the probe and the configuration, then MaxCycles accumulated samples and the
\* one that publishes, each at most a start tick, AdcTime and a tick later.
RecoveryTime == 2 * MaxTick + (MaxCycles + 1) * (2 * MaxTick + AdcTime)

\* the clock stops at MaxTime, and for a sensor that has recovered a whole
\* recovery after the last instant a recovery is followed from
LastTime == IF busHealthy THEN RecoverBy + RecoveryTime ELSE MaxTime

\* millis() at this call, dt after the previous one
Clock(dt) ==
    /\ now + dt <= LastTime
    /\ now' = now + dt

\* bool -> the value returned
Returned(b) == IF b THEN "true" ELSE "false"

\* lines 1444, 1454, 1484: TSLmode after the writes of an INITIALIZED/AVAILABLE tick
ModeAfterLost(writeOk) == "NOTAVAILABLE"
ModeAfter(writeOk) == IF writeOk THEN "INITIALIZED" ELSE "NOTAVAILABLE"

\* line 1409: readTSL() || (triggerOldSensor && readOLD()): the legacy sensor
\* is read when readTSL() returned false and the legacy sensor is due
LegacyCalled(avail, trigger) == avail = "false" /\ trigger

\* lines 858 and 1409: the rest of readSQM(nextTemperatureRead < timeMillis)
\* after its readTSL() has returned
ReadSQM_Legacy ==
    \E trigger \in BOOLEAN : oldRead' = LegacyCalled(tslAvailable', trigger)

\* lines 1416-1422: lgI2cOpen fails
ReadTSL_NoBus(dt) ==
    /\ Clock(dt)
    /\ ~busHealthy
    /\ TSLmode' = "NOTAVAILABLE"
    /\ poweredAt' = 0
    /\ tslAvailable' = "false"
    /\ tslOpened' = FALSE
    /\ tslRead' = FALSE
    /\ tslPublished' = FALSE
    /\ tslCorrupt' = FALSE
    /\ ReadSQM_Legacy
    /\ UNCHANGED <<adcStartTime, niter, fullCumulative, irCumulative>>
    /\ UNCHANGED <<motionVars, busHealthy, powerVars, tickHist>>

\* lines 1424-1431: TSL_NOTAVAILABLE, the probe write
ReadTSL_Probe(dt, writeOk) ==
    /\ Clock(dt)
    /\ busHealthy => writeOk
    /\ TSLmode = "NOTAVAILABLE"
    /\ TSLmode' = IF writeOk THEN "AVAILABLE" ELSE TSLmode
    /\ poweredAt' = IF writeOk THEN poweredAt ELSE 0
    /\ tslAvailable' = Returned(writeOk)
    /\ tslOpened' = TRUE
    /\ tslRead' = FALSE
    /\ tslPublished' = FALSE
    /\ tslCorrupt' = FALSE
    /\ ReadSQM_Legacy
    /\ UNCHANGED <<adcStartTime, niter, fullCumulative, irCumulative>>
    /\ UNCHANGED <<motionVars, busHealthy, powerVars, tickHist>>

\* lines 1432-1446: TSL_AVAILABLE, the configuration writes
ReadTSL_Configure(dt, writeOk) ==
    /\ Clock(dt)
    /\ busHealthy => writeOk
    /\ TSLmode = "AVAILABLE"
    /\ TSLmode' = ModeAfter(writeOk)
    /\ poweredAt' = 0
    /\ tslAvailable' = Returned(writeOk)
    /\ tslOpened' = TRUE
    /\ tslRead' = FALSE
    /\ tslPublished' = FALSE
    /\ tslCorrupt' = FALSE
    /\ ReadSQM_Legacy
    /\ UNCHANGED <<adcStartTime, niter, fullCumulative, irCumulative>>
    /\ UNCHANGED <<motionVars, busHealthy, powerVars, tickHist>>

\* lines 1451-1452: the sensor integrates from the power-on command if its
\* writes succeeded; a failed write is the loss of the sensor (line 1454)
PoweredOn(writeOk, t) == IF writeOk THEN t ELSE 0

\* lines 1449-1456: TSL_INITIALIZED, no integration started: power on,
\* adcStartTime = millis()
ReadTSL_Start(dt, writeOk) ==
    /\ Clock(dt)
    /\ busHealthy => writeOk
    /\ TSLmode = "INITIALIZED"
    /\ adcStartTime = 0
    /\ adcStartTime' = now'
    /\ poweredAt' = PoweredOn(writeOk, now')
    /\ TSLmode' = ModeAfter(writeOk)
    /\ tslAvailable' = Returned(writeOk)
    /\ tslOpened' = TRUE
    /\ tslRead' = FALSE
    /\ tslPublished' = FALSE
    /\ tslCorrupt' = FALSE
    /\ ReadSQM_Legacy
    /\ UNCHANGED <<niter, fullCumulative, irCumulative>>
    /\ UNCHANGED <<motionVars, busHealthy, powerVars, tickHist>>

\* line 1457: millis() > adcStartTime + TSL2591_ADC_TIME
IntegrationOver(t) == t > adcStartTime + AdcTime

\* lines 1447-1457, no branch taken: the integration is running; `available`
\* keeps the false of line 1415
ReadTSL_Wait(dt) ==
    /\ Clock(dt)
    /\ TSLmode = "INITIALIZED"
    /\ adcStartTime # 0
    /\ ~IntegrationOver(now')
    /\ tslAvailable' = "false"
    /\ tslOpened' = TRUE
    /\ tslRead' = FALSE
    /\ tslPublished' = FALSE
    /\ tslCorrupt' = FALSE
    /\ ReadSQM_Legacy
    /\ UNCHANGED <<TSLmode, adcStartTime, niter, fullCumulative, irCumulative,
                   poweredAt>>
    /\ UNCHANGED <<motionVars, busHealthy, powerVars, tickHist>>

\* line 1468: the sample is added to the running sums
KeepsAccumulatingNoMin(n, vis) == vis < VisThreshold /\ n < MaxCycles
KeepsAccumulating(n, vis) ==
    n < MinCycles \/ (vis < VisThreshold /\ n < MaxCycles)

\* line 1467: a sample with full < ir is discarded
DiscardedNever(full, ir) == FALSE
Discarded(full, ir) == full < ir

\* lines 1457-1486: the integration is over: both channels read, power off,
\* adcStartTime = 0, then the sample discarded (full < ir, return true),
\* accumulated, or the reading published and the sums reset
ReadTSL_SampleWrites(dt, writeOk, full, ir) ==
    /\ Clock(dt)
    /\ busHealthy => (writeOk /\ full >= ir)
    /\ TSLmode = "INITIALIZED"
    /\ adcStartTime # 0
    /\ IntegrationOver(now')
    /\ adcStartTime' = 0
    /\ poweredAt' = 0
    /\ tslOpened' = TRUE
    /\ tslRead' = TRUE
    /\ tslCorrupt' = (full < ir)
    /\ IF Discarded(full, ir)
         THEN /\ tslAvailable' = "true"
              /\ tslPublished' = FALSE
              /\ UNCHANGED <<TSLmode, niter, fullCumulative, irCumulative>>
         ELSE /\ TSLmode' = ModeAfter(writeOk)
              /\ tslAvailable' = Returned(writeOk)
              /\ IF KeepsAccumulating(niter, fullCumulative - irCumulative)
                   THEN /\ niter' = niter + 1
                        /\ fullCumulative' = fullCumulative + full
                        /\ irCumulative' = irCumulative + ir
                        /\ tslPublished' = FALSE
                   ELSE /\ niter' = 0
                        /\ fullCumulative' = 0
                        /\ irCumulative' = 0
                        /\ tslPublished' = TRUE
    /\ ReadSQM_Legacy
    /\ UNCHANGED <<motionVars, busHealthy, powerVars>>

ReadTSL_Sample(dt, writeOk, full, ir) ==
    /\ ReadTSL_SampleWrites(dt, writeOk, full, ir)
    /\ UNCHANGED tickHist

\* lines 1416, 1467 and 1488: the handles readTSL() holds when a sample tick
\* that found n returns: `return true` of a sample with full < ir leaves
\* without lgI2cClose
HandlesAfter(n, full, ir) == IF full < ir THEN n + 1 ELSE n

\* the same tick, with the history of the samples read and of the handles:
\* the count restarts at the first sample read after a finalization (niter
\* is 0 then, line 1480)
ReadTSL_Sample_Recorded(dt, writeOk, full, ir) ==
    /\ ReadTSL_SampleWrites(dt, writeOk, full, ir)
    /\ HandlesAfter(tslHandles, full, ir) <= MaxHandles
    /\ tslHandles' = HandlesAfter(tslHandles, full, ir)
    /\ IF full < ir
         THEN UNCHANGED sampleHist
         ELSE /\ seenCount' = (IF niter = 0 THEN 0 ELSE seenCount) + 1
              /\ seenVisible' =
                   (IF niter = 0 THEN 0 ELSE seenVisible) + (full - ir)

\* ------------------------------------------------- TimerHit (852-898)
\* line 1343: millis(), the elapsed milliseconds converted to int
Millis(e) ==
    LET m == e % IntMod IN IF 2 * m >= IntMod THEN m - IntMod ELSE m

\* lines 865, 883, 888, 893: timeMillis + period in long int: exact where long
\* has 64 bits; where it has 32 a sum beyond the largest int overflows, which
\* is undefined and wraps on the machines the driver runs on
LongSums(n) == IF 2 * n >= IntMod THEN {n, n - IntMod} ELSE {n}

\* lines 860, 880, 885, 890: the task is due
Due(next, t) == next < t

\* the due time of a task after a tick at t in which it ran or did not
NextDue(ran, old, t, period) ==
    IF ran THEN LongSums(t + period) ELSE {old}

\* lines 857-897, connected: the acquirers are called (sqm is what readSQM()
\* returned), the tasks that are due run and get their next due time, and
\* SetTimer(POLL_PERIOD) sets the poll timer again. temperatureCompensation() is called with
\* compensation disabled (its setting after initProperties) and returns at
\* line 1176; what the acquirers and the temperature read write is modelled
\* by ReadTSL_*, ReadPower_* and ReadTemperature*.
TimerHit(dt, sqm) ==
    /\ timerArmed
    /\ connected
    /\ ~TemperatureCompensate
    /\ elapsed + dt <= MaxElapsed
    /\ elapsed' = elapsed + dt
    /\ LET t == Millis(elapsed')
           temp == Due(nextTemperatureRead, t)
           comp == Due(nextTemperatureCompensation, t)
           sys == Due(nextSystemRead, t)
           fan == Due(nextFanUpdate, t)
       IN /\ nextTemperatureRead' \in
                NextDue(temp, nextTemperatureRead, t, TempPeriod)
          /\ nextTemperatureCompensation' \in
                NextDue(comp, nextTemperatureCompensation, t, CompPeriod)
          /\ nextSystemRead' \in NextDue(sys, nextSystemRead, t, SysPeriod)
          /\ nextFanUpdate' \in NextDue(fan, nextFanUpdate, t, FanPeriod)
          /\ dueTemperature' =
                IF temp THEN elapsed' + TempPeriod ELSE dueTemperature
          /\ dueCompensation' =
                IF comp THEN elapsed' + CompPeriod ELSE dueCompensation
          /\ ranTasks' = {k \in {"temperature", "compensation", "system", "fan"} :
                            \/ k = "temperature" /\ temp
                            \/ k = "compensation" /\ comp
                            \/ k = "system" /\ sys
                            \/ k = "fan" /\ fan}
    /\ calledSensors' = {"light", "power"}
    /\ timerArmed' = TRUE
    /\ UNCHANGED <<connected, tslVars, busHealthy, powerVars>>
    /\ UNCHANGED <<Position, FocusAbsMax, FocusBacklash, lastDirection,
                   backlashTicksRemaining, abortFlag, enPin, decayPin, savedPos,
                   resolution, holdPower, mpc, mTarget, ret, wpc, targetPos,
                   motorDirection, currentPos, backlashLeft, threads, startPos,
                   budget, counted, uncounted, sawAbort, pulsesAfterAbort,
                   overwritten, okTarget, completedDirection, motorCurrent, wHold,
                   mcaller, resVars, revVars, revHist, thermCfg,
                   lastTemperature>>

\* lines 854-855: not connected: TimerHit returns and sets no timer
TimerHit_Disconnected ==
    /\ timerArmed
    /\ ~connected
    /\ timerArmed' = FALSE
    /\ ranTasks' = {}
    /\ calledSensors' = {}
    /\ UNCHANGED <<elapsed, connected, dueVars, dueTemperature, dueCompensation,
                   tslVars, busHealthy, powerVars>>
    /\ UNCHANGED <<Position, FocusAbsMax, FocusBacklash, lastDirection,
                   backlashTicksRemaining, abortFlag, enPin, decayPin, savedPos,
                   resolution, holdPower, mpc, mTarget, ret, wpc, targetPos,
                   motorDirection, currentPos, backlashLeft, threads, startPos,
                   budget, counted, uncounted, sawAbort, pulsesAfterAbort,
                   overwritten, okTarget, completedDirection, motorCurrent, wHold,
                   mcaller, resVars, revVars, revHist, thermCfg,
                   lastTemperature>>

\* the client disconnects the device
Disconnect ==
    /\ connected
    /\ connected' = FALSE
    /\ UNCHANGED <<elapsed, timerArmed, dueVars, dueTemperature, dueCompensation,
                   ranTasks, calledSensors, tslVars, busHealthy, powerVars>>
    /\ UNCHANGED <<Position, FocusAbsMax, FocusBacklash, lastDirection,
                   backlashTicksRemaining, abortFlag, enPin, decayPin, savedPos,
                   resolution, holdPower, mpc, mTarget, ret, wpc, targetPos,
                   motorDirection, currentPos, backlashLeft, threads, startPos,
                   budget, counted, uncounted, sawAbort, pulsesAfterAbort,
                   overwritten, okTarget, completedDirection, motorCurrent, wHold,
                   mcaller, resVars, revVars, revHist, thermCfg,
                   lastTemperature>>

\* ------------------------------------------------- readPower (1604-1710)
\* the values of an int16_t
WordMod == ByteMod * ByteMod

\* line 1663: conversion of an int to int16_t
S16(n) ==
    LET m == n % WordMod IN IF 2 * m >= WordMod THEN m - WordMod ELSE m

\* line 1663: val = readBuf[0] * 255 + readBuf[1], the bytes unsigned
Val(hi, lo) == S16(hi * (ByteMod - 1) + lo)

\* the two bytes the converter returns: 0, 1 and the all-ones word
RawWords == {<<0, 0>>, <<0, 1>>, <<ByteMod - 1, ByteMod - 1>>}

\* lines 1616, 1633-1644, 1665-1676: the channel of an index: 0 Vin, 1 Vreg, 2 Itot
Channel(i) == i \div 2

\* lines 1697-1699
NextIndexNoWrap(i) == i + 1
NextIndex(i) == IF i + 1 > 5 THEN 0 ELSE i + 1

\* history: the indexes of the last six calls that opened the bus
Logged(log, i) ==
    IF Len(log) < 6 THEN Append(log, i) ELSE Append(Tail(log), i)

\* lines 1606-1607, 1612-1613, 1704-1708: the board has no power sensor, or
\* lgI2cOpen fails: nothing is written
ReadPower_NoBus ==
    /\ powerTicks < MaxPowerTicks
    /\ powerTicks' = powerTicks + 1
    /\ powerOpened' = FALSE
    /\ powerFailed' = FALSE
    /\ UNCHANGED <<powerIndex, powerValues, PowerStatus, adcChannel, convFresh,
                   tickLog>>
    /\ UNCHANGED <<motionVars, tslVars, busHealthy>>

\* lines 1631-1651, 1697-1699: even index, the write that starts a conversion
\* of the channel of this index
ReadPower_Trigger(writeOk) ==
    /\ powerTicks < MaxPowerTicks
    /\ powerIndex % 2 = 0
    /\ powerTicks' = powerTicks + 1
    /\ powerOpened' = TRUE
    /\ powerFailed' = ~writeOk
    /\ PowerStatus' = IF writeOk THEN PowerStatus ELSE "ALERT"
    /\ adcChannel' = IF writeOk THEN Channel(powerIndex) ELSE adcChannel
    /\ convFresh' = writeOk
    /\ powerIndex' = NextIndex(powerIndex)
    /\ tickLog' = Logged(tickLog, powerIndex)
    /\ UNCHANGED powerValues
    /\ UNCHANGED <<motionVars, tslVars, busHealthy>>

\* lines 1657-1660: the pointer write succeeded and bytes were read
ReadSucceededAlways(writeOk, readOk) == TRUE
ReadSucceeded(writeOk, readOk) == writeOk /\ readOk

\* lines 1678-1679: a reading is integrated into the accumulators
IntegratesItotOnly(i) == i = 5
Integrates(i) == TRUE

\* lines 1653-1699: odd index, the pointer write and the read of the
\* conversion register; on success the reading of this index is stored and
\* the accumulators are advanced
ReadPower_Read(writeOk, readOk, hi, lo) ==
    /\ powerTicks < MaxPowerTicks
    /\ powerIndex % 2 = 1
    /\ powerTicks' = powerTicks + 1
    /\ powerOpened' = TRUE
    /\ powerFailed' = ~(writeOk /\ readOk)
    /\ IF ReadSucceeded(writeOk, readOk)
         THEN /\ PowerVin' = IF powerIndex = 1 THEN Val(hi, lo) ELSE PowerVin
              /\ PowerVreg' = IF powerIndex = 3 THEN Val(hi, lo) ELSE PowerVreg
              /\ PowerItot' = IF powerIndex = 5 THEN Val(hi, lo) ELSE PowerItot
              /\ IF Integrates(powerIndex)
                   THEN /\ energyAs' = energyAs + PowerItot'
                        /\ energyWs' = energyWs + PowerVin' * PowerItot'
                   ELSE UNCHANGED <<energyAs, energyWs>>
              /\ PowerStatus' = "OK"
         ELSE /\ PowerStatus' = "ALERT"
              /\ UNCHANGED powerValues
    /\ powerIndex' = NextIndex(powerIndex)
    /\ tickLog' = Logged(tickLog, powerIndex)
    /\ UNCHANGED <<adcChannel, convFresh>>
    /\ UNCHANGED <<motionVars, tslVars, busHealthy>>

\* ---------------------------------------------------------------- Next
Next ==
    \/ \E t \in Targets : MoveAbsFocuser_Check(t)
    \/ MoveAbsFocuser_Direction
    \/ MoveAbsFocuser_Spawn
    \/ WorkerInit
    \/ WorkerLoop
    \/ WorkerBody
    \/ WorkerExit
    \/ AbortFocuser_Set
    \/ AbortFocuser_Join
    \/ \E ticks \in SyncTicks : SyncFocuser(ticks)
    \/ \E v \in MaxPositions : SetMaxPosition(v)
    \/ \E steps \in BacklashValues : SetFocuserBacklash(steps)
    \/ Destructor_Abort
    \/ Destructor_Join

Spec == Init /\ [][Next]_vars

\* Sequences of moves, aborts and backlash settings, with the direction of
\* the last completed move recorded.
NextHistory ==
    \/ \E t \in Targets : MoveAbsFocuser_Check(t)
    \/ MoveAbsFocuser_Direction
    \/ MoveAbsFocuser_Spawn
    \/ WorkerInit
    \/ WorkerLoop
    \/ WorkerBody
    \/ WorkerExit_Recorded
    \/ AbortFocuser_Set
    \/ AbortFocuser_Join
    \/ \E steps \in BacklashValues : SetFocuserBacklash(steps)

SpecHistory == Init /\ [][NextHistory]_vars

\* A focuser at 0 with no backlash compensation set.
InitNoBacklash ==
    /\ FocusAbsMax = MaxPositionBound
    /\ Position = 0
    /\ FocusBacklash = 0
    /\ resolution = 1
    /\ holdPower = 0
    /\ savedPos = 0
    /\ InitController
    /\ InitPins
    /\ InitSettings
    /\ InitLight

\* Moves with the direction line modelled, and changes of the reverse setting.
NextReverse ==
    \/ \E t \in Targets : MoveAbsFocuser_Check(t)
    \/ MoveAbsFocuser_Direction
    \/ MoveAbsFocuser_Spawn
    \/ WorkerInit
    \/ WorkerLoop
    \/ WorkerBody_Dir
    \/ WorkerExit
    \/ \E enabled \in BOOLEAN : ReverseFocuser(enabled)

SpecReverse == InitNoBacklash /\ [][NextReverse]_vars

\* A focuser at either end of its travel, with a temperature coefficient and
\* a critical focus zone set.
InitThermal ==
    /\ FocusAbsMax = MaxPositionBound
    /\ Position \in {0, MaxPositionBound}
    /\ FocusBacklash = 0
    /\ resolution = 1
    /\ holdPower = 0
    /\ savedPos = (Position * MAX_RESOLUTION) \div resolution
    /\ InitController
    /\ InitPins
    /\ FocusReverse = FALSE
    /\ FocusTemperature = 0
    /\ temperatureAlert = FALSE
    /\ lastTemperature = 0
    /\ TemperatureCompensate = FALSE
    /\ TemperatureCoef \in CoefValues
    /\ stepsPerCfz \in CfzValues
    /\ InitLight

\* Temperature readings, thermal compensation and the moves it issues.
NextThermal ==
    \/ \E temp \in Temperatures : ReadTemperature(temp)
    \/ \E enabled \in BOOLEAN : SetTemperatureCompensate(enabled)
    \/ TemperatureCompensation
    \/ TemperatureCompensation_Register
    \/ MoveAbsFocuser_Direction
    \/ MoveAbsFocuser_Spawn
    \/ WorkerInit
    \/ WorkerLoop
    \/ WorkerBody
    \/ WorkerExit

SpecThermal == InitThermal /\ [][NextThermal]_vars

\* The same, with temperature reads at which both sensors fail.
NextThermalFail ==
    \/ \E temp \in Temperatures : ReadTemperature(temp)
    \/ ReadTemperature_Failed
    \/ \E enabled \in BOOLEAN : SetTemperatureCompensate(enabled)
    \/ TemperatureCompensation
    \/ TemperatureCompensation_Register
    \/ MoveAbsFocuser_Direction
    \/ MoveAbsFocuser_Spawn
    \/ WorkerInit
    \/ WorkerLoop
    \/ WorkerBody
    \/ WorkerExit

SpecThermalFail == InitThermal /\ [][NextThermalFail]_vars

\* Moves and aborts, changes of the holding power and of the current limit,
\* with the worker's exit cut inside its setCurrent(true).
NextHold ==
    \/ \E t \in Targets : MoveAbsFocuser_Check(t)
    \/ MoveAbsFocuser_Direction
    \/ MoveAbsFocuser_Spawn
    \/ WorkerInit
    \/ WorkerLoop
    \/ WorkerBody
    \/ WorkerExit_Publish
    \/ WorkerExit_Current
    \/ AbortFocuser_Set
    \/ AbortFocuser_Join
    \/ \E hold \in HoldSelections : SetFocusHold(hold)
    \/ SetStepperCurrent

SpecHold == InitNoBacklash /\ [][NextHold]_vars

\* The calls of readTSL() made by TimerHit (line 858).
NextLight ==
    \/ \E dt \in 1 .. MaxTick : ReadTSL_NoBus(dt)
    \/ \E dt \in 1 .. MaxTick, writeOk \in BOOLEAN : ReadTSL_Probe(dt, writeOk)
    \/ \E dt \in 1 .. MaxTick, writeOk \in BOOLEAN : ReadTSL_Configure(dt, writeOk)
    \/ \E dt \in 1 .. MaxTick, writeOk \in BOOLEAN : ReadTSL_Start(dt, writeOk)
    \/ \E dt \in 1 .. MaxTick : ReadTSL_Wait(dt)
    \/ \E dt \in 1 .. MaxTick, writeOk \in BOOLEAN, full \in Samples, ir \in Samples :
          ReadTSL_Sample(dt, writeOk, full, ir)

SpecLight == InitNoBacklash /\ [][NextLight]_vars

\* a step of the worker thread
WorkerStep == WorkerInit \/ WorkerLoop \/ WorkerBody \/ WorkerExit

\* Moves issued at rest and while a worker steps, and their workers; the
\* worker thread is scheduled fairly.
NextMoves ==
    \/ \E t \in Targets : MoveAbsFocuser_Check(t)
    \/ MoveAbsFocuser_Direction
    \/ MoveAbsFocuser_Spawn
    \/ WorkerInit
    \/ WorkerLoop
    \/ WorkerBody
    \/ WorkerExit

SpecMovesLive == InitNoBacklash /\ [][NextMoves]_vars /\ WF_vars(WorkerStep)

\* The poll timer and the due times of TimerHit.
NextPoll ==
    \/ \E dt \in 1 .. MaxTick, sqm \in BOOLEAN : TimerHit(dt, sqm)
    \/ TimerHit_Disconnected
    \/ Disconnect

SpecPoll == InitNoBacklash /\ [][NextPoll]_vars

\* The same calls, with the history of the samples read and of the handles.
NextSamples ==
    \/ \E dt \in 1 .. MaxTick : ReadTSL_NoBus(dt)
    \/ \E dt \in 1 .. MaxTick, writeOk \in BOOLEAN : ReadTSL_Probe(dt, writeOk)
    \/ \E dt \in 1 .. MaxTick, writeOk \in BOOLEAN : ReadTSL_Configure(dt, writeOk)
    \/ \E dt \in 1 .. MaxTick, writeOk \in BOOLEAN : ReadTSL_Start(dt, writeOk)
    \/ \E dt \in 1 .. MaxTick : ReadTSL_Wait(dt)
    \/ \E dt \in 1 .. MaxTick, writeOk \in BOOLEAN, full \in Samples, ir \in Samples :
          ReadTSL_Sample_Recorded(dt, writeOk, full, ir)

SpecSamples == InitNoBacklash /\ [][NextSamples]_vars

\* The sensor becomes reachable and stays so.
SensorRecovers ==
    /\ ~busHealthy
    /\ now <= RecoverBy
    /\ busHealthy' = TRUE
    /\ UNCHANGED <<motionVars, tslVars, powerVars>>

\* The ticks of readSQM() with a sensor that recovers at some tick; ticks of
\* a sensor that has not recovered are followed up to RecoverBy.
LiveTick(tick) == (busHealthy \/ now <= RecoverBy) /\ tick

NextLightLive ==
    \/ SensorRecovers
    \/ \E dt \in 1 .. MaxTick : LiveTick(ReadTSL_NoBus(dt))
    \/ \E dt \in 1 .. MaxTick, writeOk \in BOOLEAN :
          LiveTick(ReadTSL_Probe(dt, writeOk))
    \/ \E dt \in 1 .. MaxTick, writeOk \in BOOLEAN :
          LiveTick(ReadTSL_Configure(dt, writeOk))
    \/ \E dt \in 1 .. MaxTick, writeOk \in BOOLEAN :
          LiveTick(ReadTSL_Start(dt, writeOk))
    \/ \E dt \in 1 .. MaxTick : LiveTick(ReadTSL_Wait(dt))
    \/ \E dt \in 1 .. MaxTick, writeOk \in BOOLEAN, full \in Samples, ir \in Samples :
          LiveTick(ReadTSL_Sample(dt, writeOk, full, ir))

\* TimerHit re-arms its timer at every run (line 897), so ticks keep coming.
SpecLightLive ==
    InitNoBacklash /\ [][NextLightLive]_vars /\ WF_vars(LiveTick(NextLight))

\* ticks of a relative move
RelTicks == {1, MaxPositionBound - 1}
\* FocusDirection
Directions == {"INWARD", "OUTWARD"}

\* Relative moves and the workers they start.
NextRelative ==
    \/ \E dir \in Directions, ticks \in RelTicks : MoveRelFocuser(dir, ticks)
    \/ MoveAbsFocuser_Direction
    \/ MoveAbsFocuser_Spawn
    \/ WorkerInit
    \/ WorkerLoop
    \/ WorkerBody
    \/ WorkerExit

SpecRelative == InitNoBacklash /\ [][NextRelative]_vars

\* The calls of readPower() made by TimerHit (line 895).
NextPower ==
    \/ ReadPower_NoBus
    \/ \E writeOk \in BOOLEAN : ReadPower_Trigger(writeOk)
    \/ \E writeOk \in BOOLEAN, readOk \in BOOLEAN, w \in RawWords :
          ReadPower_Read(writeOk, readOk, w[1], w[2])

SpecPower == InitNoBacklash /\ [][NextPower]_vars

\* FocusResolutionSP selections
Resolutions == {1, 2, 4}

\* A focuser of one full step of travel at any of the resolutions.
InitResolution ==
    /\ resolution \in Resolutions
    /\ FocusAbsMax = resolution
    /\ Position \in 0 .. FocusAbsMax
    /\ FocusBacklash = 0
    /\ holdPower = 0
    /\ savedPos = (Position * MAX_RESOLUTION) \div resolution
    /\ InitController
    /\ InitPins
    /\ InitSettings
    /\ InitLight

\* Changes of resolution and the corrective moves they issue.
NextResolution ==
    \/ \E newRes \in Resolutions : Resolution_Select(newRes)
    \/ Resolution_Adjust
    \/ Resolution_Scale
    \/ MoveAbsFocuser_Direction
    \/ MoveAbsFocuser_Spawn
    \/ WorkerInit
    \/ WorkerLoop
    \/ WorkerBody
    \/ WorkerExit

SpecResolution == InitResolution /\ [][NextResolution]_vars

\* ================================================================ claims
\* the worker has run off its lambda and nothing has touched its result
Settled == wpc = "done" /\ ~overwritten

\* a step of the worker thread that writes Position
WorkerWrite == WorkerBody \/ WorkerExit

\* C1: a move to a target in range and different from Position, whose worker
\* runs to its exit with no abort and no further command, leaves
\* Position == target exactly (at rest or superseding an earlier worker).
C1_MoveReachesTarget ==
    (Settled /\ ~sawAbort) => Position = targetPos

C1_Witness ==
    /\ Settled
    /\ ~sawAbort
    /\ counted > 0
    /\ uncounted > 0
    /\ startPos # targetPos
    /\ Position = targetPos

\* C2: 0 <= Position <= MaxPosition in every reachable state.
C2_PositionInRange ==
    0 <= Position /\ Position <= FocusAbsMax

\* C3: at most one motion worker exists at any time: every thread that runs
\* is the one held by _motionThread, it is joined before the next one is
\* made, and the destructor leaves none behind.
C3_OneWorker ==
    /\ threads <= 1
    /\ (wpc # "none") <=> (threads = 1)
    /\ (mpc = "destroyed") => (threads = 0 /\ wpc = "none")

C3_Witness ==
    /\ mpc = "mv_join"
    /\ wpc = "done"
    /\ sawAbort
    /\ threads = 1

\* C4: Position has a single writer at a time: while a worker is active only
\* the worker writes Position.
C4_SingleWriter ==
    [][(WorkerActive /\ Position' # Position) => WorkerWrite]_vars

\* the integers from a to b, whichever is the smaller
Between(a, b) == IF a <= b THEN a .. b ELSE b .. a

\* C5: a worker that exits after AbortFlag was asserted leaves Position at the
\* position it had reached (start + Direction * counted pulses, no rollback),
\* between its start and that position, and at the target only if the
\* target was reached.
C5_AbortLeavesReached ==
    (Settled /\ sawAbort) =>
        /\ Position = currentPos
        /\ currentPos = U32(startPos + motorDirection * counted)
        /\ Position \in Between(startPos, currentPos)
        /\ (Position = targetPos => currentPos = targetPos)

C5_Witness ==
    /\ Settled
    /\ sawAbort
    /\ counted > 0
    /\ currentPos # targetPos
    /\ Position = currentPos

\* C6: after AbortFlag becomes true the active worker emits at most one
\* further step pulse: it never enters the loop body again.
C6_AbortLatency ==
    /\ pulsesAfterAbort <= 1
    /\ (abortFlag /\ wpc = "body") => pulsesAfterAbort = 0

C6_Witness ==
    /\ wpc = "done"
    /\ sawAbort
    /\ pulsesAfterAbort = 1

\* the step of MoveAbsFocuser that computes direction and backlash budget
DirectionStep == mpc = "mv_dir" /\ mpc' = "mv_join"
\* the step of MoveAbsFocuser that makes the thread
SpawnStep == mpc = "mv_join" /\ mpc' = "idle"

\* the pulses of a worker: the budget first, not counted, then counted ones
BacklashFirst ==
    (wpc # "none") =>
        /\ uncounted <= budget
        /\ counted > 0 => uncounted = budget

\* C7 as stated: the budget of a move is backlashConfig when its direction
\* differs from the direction of the prior COMPLETED move, 0 when it is
\* the same, and the budget is emitted, uncounted, before the first counted
\* step.
C7_PriorCompletedMove ==
    /\ []BacklashFirst
    /\ [][(DirectionStep /\ completedDirection # 0) =>
            backlashTicksRemaining' =
                IF lastDirection' # completedDirection /\ FocusBacklash > 0
                  THEN FocusBacklash ELSE 0]_vars

\* C7 amended: the budget of a move is backlashConfig when its direction
\* differs from the direction of the previous STARTED move (completed,
\* cancelled or superseded) and backlashConfig > 0, else 0 (also for the
\* first move); the worker is handed that budget and emits it, uncounted,
\* before its first counted step.
C7_PriorStartedMove ==
    /\ []BacklashFirst
    /\ [][DirectionStep =>
            backlashTicksRemaining' =
                IF lastDirection # 0 /\ lastDirection' # lastDirection
                   /\ FocusBacklash > 0
                  THEN FocusBacklash ELSE 0]_vars
    /\ [][SpawnStep =>
            /\ budget' = backlashTicksRemaining
            /\ backlashLeft' = backlashTicksRemaining
            /\ motorDirection' = lastDirection]_vars

C7_Witness ==
    /\ wpc = "test"
    /\ completedDirection = motorDirection
    /\ budget = MaxBacklash
    /\ uncounted = MaxBacklash
    /\ counted > 0

\* C8: moveAbsolute with a target outside [0, MaxPosition] returns the
\* failure status and has no effect: no line written, no switch to Driving,
\* no cancellation, Position, Direction and BacklashBudget unchanged.
C8_OutOfRangeNoEffect ==
    [][\A t \in Targets :
        (MoveAbsFocuser_Check(t) /\ (t < 0 \/ t > FocusAbsMax)) =>
            /\ ret' = "MoveAbs:ALERT"
            /\ UNCHANGED <<Position, savedPos, abortFlag, enPin, decayPin,
                           lastDirection, backlashTicksRemaining, mpc, wpc,
                           threads, workerVars, cfgVars>>]_vars

C8_Witness ==
    /\ ret = "MoveAbs:ALERT"
    /\ mpc = "idle"
    /\ wpc = "body"
    /\ ~abortFlag
    /\ Driving

\* C9: moveAbsolute(target) with target == Position returns success and is a
\* no-op (no worker, no AbortFlag, Direction, BacklashBudget and policy
\* unchanged), and Position still equals target once activity has settled.
C9_AlreadyThereNoOp ==
    /\ [][\A t \in Targets :
            (MoveAbsFocuser_Check(t) /\ t = Position /\ t <= FocusAbsMax) =>
                /\ ret' = "MoveAbs:OK"
                /\ UNCHANGED <<Position, savedPos, abortFlag, enPin, decayPin,
                               lastDirection, backlashTicksRemaining, mpc, wpc,
                               threads, workerVars, cfgVars>>]_vars
    /\ []((okTarget # -1 /\ mpc = "idle" /\ ~WorkerActive) => Position = okTarget)

\* a step of the AbortFocuser handler
AbortStep == AbortFocuser_Set \/ AbortFocuser_Join
\* the step in which AbortFocuser returns
AbortReturn == AbortStep /\ mpc' = "idle"
\* what abort() must not change
abortFrame == <<Position, savedPos, enPin, decayPin, lastDirection,
                backlashTicksRemaining, cfgVars>>

\* abort() returns only after the worker has exited, and Position changes
\* afterwards only by a later request
AbortWaits ==
    /\ [](ret = "Abort:TRUE" => ~WorkerActive)
    /\ [][AbortReturn => ~WorkerActive']_vars
    /\ [][(ret = "Abort:TRUE" /\ ret' = "Abort:TRUE") => Position' = Position]_vars

\* C10 as stated: abort() returns only after the active worker has exited and
\* Position no longer changes; with no active worker, or called a second
\* time, it changes nothing (AbortFlag included).
C10_AbortIdempotent ==
    /\ AbortWaits
    /\ [][(AbortFocuser_Set /\ ~WorkerActive) =>
            UNCHANGED <<abortFrame, abortFlag>>]_vars

\* C10 amended: as stated, but with a worker that has finished and was not
\* joined yet abort() still sets AbortFlag (and joins the finished thread);
\* it changes nothing else, and nothing at all when no thread is joinable.
C10_AbortIdempotentButFlag ==
    /\ AbortWaits
    /\ [][AbortStep => UNCHANGED abortFrame]_vars
    /\ [][(AbortFocuser_Set /\ ~Joinable) =>
            UNCHANGED <<abortFrame, abortFlag, wpc, threads, mpc>>]_vars
    /\ [][(AbortFocuser_Set /\ Joinable) => abortFlag']_vars

C10_Witness ==
    /\ mpc = "ab_join"
    /\ wpc = "done"
    /\ sawAbort
    /\ currentPos # targetPos

\* C11: once a change of resolution and the corrective move it issued have
\* finished, Position/oldRes equals Position'/newRes within one grid unit
\* (one step of the coarser of the two resolutions).
AbsDiff(a, b) == IF a >= b THEN a - b ELSE b - a
C11_ScaleInvariant ==
    (mpc = "idle" /\ lastRes # 0 /\ wpc \in {"none", "done"}) =>
        AbsDiff(Position * lastRes, posBefore * resolution)
            <= (IF lastRes > resolution THEN lastRes ELSE resolution)

\* C12: the remainder is Position mod oldRes; a corrective move is issued
\* exactly when the resolution is lowered and the remainder is > 0; its
\* displacement is -r when r/oldRes < 0.5 and oldRes - r otherwise, so never
\* more than oldRes/2 in size, and it is the displacement of the target
\* (a uint32_t) from Position.
C12_CorrectiveDisplacement ==
    /\ [][(mpc = "idle" /\ mpc' \in {"res_adjust", "res_scale"}) =>
            /\ posAdj' = Position % resolution
            /\ (mpc' = "res_adjust") <=> (resolution' < resolution /\ posAdj' > 0)]_vars
    /\ [][(mpc = "res_adjust" /\ mpc' # "res_adjust") =>
            /\ posAdj' = (IF 2 * posAdj < lastRes THEN -posAdj ELSE lastRes - posAdj)
            /\ 2 * AbsDiff(posAdj', 0) <= lastRes
            /\ (mpc' = "mv_dir" => mTarget' = (Position + posAdj') % UIntMod)]_vars
C12_Witness ==
    /\ mpc = "res_scale"
    /\ wpc = "init"
    /\ posAdj > 0
    /\ 2 * posAdj < lastRes
    /\ targetPos = Position + posAdj

\* C13: at rest (the event loop idle, no worker running) the persisted value is
\* the current Position normalized to 1/32 steps, Position x (32 / Resolution),
\* whichever operation changed Position last.
C13_PersistedNormalized ==
    (mpc = "idle" /\ wpc \in {"none", "done"}) =>
        savedPos = (Position * MAX_RESOLUTION) \div resolution

\* C14: within one move every pulse drives the direction line to the same
\* level, the one given by the reverse setting in force when the move started.
C14_ReverseNextMoveOnly ==
    (wpc # "none") =>
        dirLevels \subseteq
            {IF reverseAtSpawn
               THEN (IF motorDirection < 0 THEN 1 ELSE 0)
               ELSE (IF motorDirection < 0 THEN 0 ELSE 1)}

\* C15: a call of the thermal compensator that finds compensation disabled,
\* or |coefficient x (currentTemp - lastTemperature)| at or below cfz/2, calls
\* no move: it leaves Position and lastTemperature unchanged and starts no
\* worker; a move is issued only when enabled and above the threshold.
C15_ThresholdGuardsMove ==
    [][TemperatureCompensation =>
         LET prod == TemperatureCoef * (FocusTemperature - lastTemperature)
             above == 2 * (IF prod >= 0 THEN prod ELSE -prod) > stepsPerCfz * CoefUnit
         IN  /\ thermalMoved' => (TemperatureCompensate /\ above)
             /\ (~TemperatureCompensate \/ ~above) =>
                   /\ ~thermalMoved'
                   /\ UNCHANGED <<Position, lastTemperature, savedPos, mpc, wpc,
                                  threads, abortFlag, pinVars, dirVars, mTarget>>]_vars
C15_Witness ==
    /\ TemperatureCompensate
    /\ FocusTemperature # lastTemperature
    /\ TemperatureCoef # 0
    /\ stepsPerCfz > 0
    /\ 2 * Abs(TemperatureCoef * (FocusTemperature - lastTemperature))
         <= stepsPerCfz * CoefUnit
    /\ ~thermalMoved
    /\ mpc = "idle"
    /\ wpc = "done"

C17_HoldingAtRest ==
    (mpc = "idle" /\ (wpc = "done" \/ (wpc = "none" /\ lastDirection # 0))) =>
        /\ decayPin = 0
        /\ motorCurrent = holdPower
        /\ (enPin = 1) <=> (holdPower = 0)

\* C18: whenever a worker is stepping (spawned and not yet past its loop), the
\* driver is in Driving: output enabled, full current, fast decay.
C18_DrivingWhileStepping ==
    (wpc \in {"init", "test", "body"}) =>
        (enPin = 0 /\ decayPin = 1 /\ motorCurrent = FullCurrent)

\* C19: on every tick that reaches the sensor while an integration has been
\* started and less than the integration period has passed since start_ts,
\* no channel is read, the mode, the running sums, the cycle count and
\* start_ts are unchanged, and the sensor is reported available.
C19_WaitingTickAvailable ==
    [][(/\ now' # now
        /\ tslOpened'
        /\ TSLmode = "INITIALIZED"
        /\ adcStartTime # 0
        /\ now' - adcStartTime < AdcTime) =>
           /\ ~tslRead'
           /\ UNCHANGED <<TSLmode, adcStartTime, niter, fullCumulative, irCumulative>>
           /\ tslAvailable' = "true"]_vars

\* C20 as stated: a reading is published and the sums reset only on a tick
\* with at least MinCycles cycles and (visible sum > VisThreshold or
\* MaxCycles cycles); every other read tick publishes nothing and resets
\* nothing; the cycle count never exceeds MaxCycles.
C20_FinalizeAboveThreshold ==
    /\ [][(now' # now /\ tslPublished') =>
            /\ niter >= MinCycles
            /\ (fullCumulative - irCumulative > VisThreshold \/ niter >= MaxCycles)
            /\ niter' = 0 /\ fullCumulative' = 0 /\ irCumulative' = 0]_vars
    /\ [][(now' # now /\ tslRead' /\ ~tslPublished') =>
            /\ niter' \in {niter, niter + 1}
            /\ fullCumulative' >= fullCumulative
            /\ irCumulative' >= irCumulative]_vars
    /\ [](niter <= MaxCycles)

\* C20 amended: the same with the visible sum at or above the threshold.
C20_FinalizeAtThreshold ==
    /\ [][(now' # now /\ tslPublished') =>
            /\ niter >= MinCycles
            /\ (fullCumulative - irCumulative >= VisThreshold \/ niter >= MaxCycles)
            /\ niter' = 0 /\ fullCumulative' = 0 /\ irCumulative' = 0]_vars
    /\ [][(now' # now /\ tslRead' /\ ~tslPublished') =>
            /\ niter' \in {niter, niter + 1}
            /\ fullCumulative' >= fullCumulative
            /\ irCumulative' >= irCumulative]_vars
    /\ [](niter <= MaxCycles)
C20_Witness ==
    /\ tslPublished
    /\ tslRead
    /\ niter = 0
    /\ fullCumulative = 0
    /\ irCumulative = 0
    /\ TSLmode = "INITIALIZED"

\* C21: a tick that reads a sample with full < ir leaves the running sums
\* and the cycle count unchanged, reports the sensor available, and leaves
\* the acquirer INITIALIZED with no integration started; the next tick that
\* reaches the sensor starts a new integration and reads no sample.
C21_CorruptSampleDiscarded ==
    /\ [][(now' # now /\ tslCorrupt') =>
            /\ UNCHANGED <<niter, fullCumulative, irCumulative>>
            /\ ~tslPublished'
            /\ tslAvailable' = "true"
            /\ TSLmode' = "INITIALIZED"
            /\ adcStartTime' = 0]_vars
    /\ [][(tslCorrupt /\ now' # now /\ tslOpened') =>
            /\ adcStartTime' = now'
            /\ ~tslRead']_vars
C21_Witness ==
    /\ tslCorrupt
    /\ tslAvailable = "true"
    /\ niter > 0
    /\ fullCumulative > irCumulative
    /\ adcStartTime = 0

\* C22: the legacy sensor is read in a tick only if the primary sensor is
\* unavailable in that tick: its bus did not open, or it is NOT_AVAILABLE
\* at the end of the tick.
C22_PrimaryTakesPriority ==
    [][(now' # now /\ oldRead') =>
          (~tslOpened' \/ TSLmode' = "NOTAVAILABLE")]_vars

\* C23: a tick whose bus does not open leaves the acquirer NOT_AVAILABLE
\* and reports unavailable; once the sensor answers from some tick on, the
\* acquirer gets back to INITIALIZED with an integration started, and
\* publishes a reading.
C23_RecoversAndFinalizes ==
    /\ [][(now' # now /\ ~tslOpened') =>
            (TSLmode' = "NOTAVAILABLE" /\ tslAvailable' = "false")]_vars
    /\ (busHealthy /\ now <= RecoverBy) ~>
           (TSLmode = "INITIALIZED" /\ adcStartTime # 0)
    /\ (busHealthy /\ now <= RecoverBy) ~> tslPublished
C23_Witness ==
    /\ busHealthy
    /\ tslPublished
    /\ TSLmode = "INITIALIZED"

\* C24: the index of the power acquirer stays in 0..5; a call that opens
\* the bus advances it cyclically by one, any other call leaves it alone;
\* any six consecutive calls that opened the bus used every index once, and
\* each trigger call among them is followed at once by the read call of the
\* same channel.
C24_IndexCycles ==
    /\ [](powerIndex \in 0 .. 5)
    /\ [][powerTicks' # powerTicks =>
            powerIndex' = (IF powerOpened' THEN (powerIndex + 1) % 6
                                           ELSE powerIndex)]_vars
    /\ [](Len(tickLog) = 6 =>
            /\ {tickLog[k] : k \in 1 .. 6} = 0 .. 5
            /\ \A k \in 1 .. 5 :
                  tickLog[k] % 2 = 0 => tickLog[k + 1] = tickLog[k] + 1)
C24_Witness ==
    /\ Len(tickLog) = 6
    /\ tickLog[1] = 3
    /\ powerIndex = 3
    /\ PowerStatus = "ALERT"

\* C25: the accumulators change only in a call that reads the Itot channel
\* (index 5) successfully.
C25_IntegratedOnItotOnly ==
    [][(energyAs' # energyAs \/ energyWs' # energyWs) =>
          (powerIndex = 5 /\ powerOpened' /\ ~powerFailed')]_vars

\* C25 amended: the accumulators change only in a call that reads a channel
\* successfully (index 1, 3 or 5), and every such call adds the stored Itot
\* reading to the one and the product of the stored Vin and Itot readings to
\* the other.
C25_IntegratedOnEveryRead ==
    /\ [][(energyAs' # energyAs \/ energyWs' # energyWs) =>
            (powerIndex % 2 = 1 /\ powerOpened' /\ ~powerFailed')]_vars
    /\ [][(powerTicks' # powerTicks /\ powerOpened' /\ ~powerFailed'
           /\ powerIndex % 2 = 1) =>
            /\ energyAs' = energyAs + PowerItot'
            /\ energyWs' = energyWs + PowerVin' * PowerItot']_vars
C25_Witness ==
    /\ powerIndex = 2
    /\ powerOpened
    /\ ~powerFailed
    /\ PowerVin = 1
    /\ PowerItot = 1
    /\ energyAs = 2
    /\ energyWs = 1

\* C26: the accumulators never decrease.
C26_EnergyMonotonic ==
    [][energyAs' >= energyAs /\ energyWs' >= energyWs]_vars

\* C27: a call of which a write or the read fails ends with the status
\* ALERT and leaves the stored readings and both accumulators unchanged.
C27_FailureAlertsOnly ==
    [][(powerTicks' # powerTicks /\ powerFailed') =>
          /\ PowerStatus' = "ALERT"
          /\ UNCHANGED <<PowerVin, PowerVreg, PowerItot, energyAs, energyWs>>]_vars
C27_Witness ==
    /\ powerFailed
    /\ powerIndex = 0
    /\ PowerStatus = "ALERT"
    /\ PowerItot # 0
    /\ energyAs # 0

\* C30: a call that stores a reading stores the conversion of its own
\* channel, started by the trigger call just before it.
C30_StoredFromOwnTrigger ==
    [][(powerTicks' # powerTicks /\ powerOpened' /\ ~powerFailed'
        /\ powerIndex % 2 = 1) =>
          (adcChannel = powerIndex \div 2 /\ convFresh)]_vars

\* C28: a call of MoveRelFocuser has the outcome of MoveAbsFocuser for the
\* position plus the signed ticks in unsigned arithmetic of the width of
\* uint32_t: out of range, it is rejected and nothing else changes; equal to
\* the position, it is answered "already there"; else the move to it begins.
C28_RelativeIsAbsolute ==
    [][relCalls' # relCalls =>
          LET t == (Position + relDelta') % UIntMod IN
            IF t < 0 \/ t > FocusAbsMax
              THEN /\ ret' = "MoveAbs:ALERT"
                   /\ mpc' = "idle"
                   /\ UNCHANGED <<Position, wpc, threads, enPin, decayPin,
                                  abortFlag, lastDirection>>
            ELSE IF t = Position
              THEN /\ ret' = "MoveAbs:OK"
                   /\ mpc' = "idle"
                   /\ UNCHANGED <<Position, wpc, threads>>
            ELSE /\ mpc' = "mv_dir"
                 /\ mTarget' = t]_vars

\* C29: a worker that has left its loop at its target, with no abort
\* requested while it ran, has emitted |target - start| + budget pulses; the
\* first `budget` pulses of a worker leave its current position unchanged
\* and every later pulse advances it by the direction.
C29_PulseCount ==
    /\ []((wpc = "done" /\ currentPos = targetPos /\ ~sawAbort) =>
            counted + uncounted = AbsDiff(targetPos, startPos) + budget)
    /\ [][(wpc = "body" /\ wpc' = "test") =>
            IF counted + uncounted < budget
              THEN currentPos' = currentPos
              ELSE currentPos' = (currentPos + motorDirection) % UIntMod]_vars

\* C31: every read of the two channels is made while the sensor integrates
\* from a power-on command issued at least the integration period earlier,
\* with no power-off, re-initialisation or loss of the sensor since.
C31_ReadAfterPowerOn ==
    [][tslRead' => (poweredAt # 0 /\ now' - poweredAt >= AdcTime)]_vars

\* C32: the reading a tick publishes is computed from the visible sum
\* (full - ir) of all non-corrupt samples read since the previous
\* finalization and normalized by their number, so that every non-corrupt
\* sample read is part of a published reading.
C32_EverySampleCounted ==
    [][tslPublished' =>
          (/\ fullCumulative - irCumulative = seenVisible'
           /\ niter = seenCount')]_vars

\* C33: in a poll tick while connected the temperature read and the thermal
\* compensation run if and only if their due time has passed, a task that
\* runs gets the due time now + its period and the due time of a task that
\* does not run is unchanged, both acquirers are invoked, and the poll timer
\* is set again whatever the sensors returned.
C33_CadencedTasks ==
    [][(connected /\ elapsed' # elapsed) =>
          /\ ("temperature" \in ranTasks') = (dueTemperature < elapsed')
          /\ ("compensation" \in ranTasks') = (dueCompensation < elapsed')
          /\ nextTemperatureRead' =
                IF "temperature" \in ranTasks'
                  THEN Millis(elapsed') + TempPeriod ELSE nextTemperatureRead
          /\ nextTemperatureCompensation' =
                IF "compensation" \in ranTasks'
                  THEN Millis(elapsed') + CompPeriod
                  ELSE nextTemperatureCompensation
          /\ calledSensors' = {"light", "power"}
          /\ timerArmed']_vars

\* C34: the abort flag is false at the instant a worker is spawned, whatever
\* aborts were asserted before, and a worker that starts away from its target
\* and exits with no abort asserted during its life has emitted at least one
\* pulse.
C34_AbortPerMove ==
    /\ [][(mpc = "mv_join" /\ wpc' = "init") => ~abortFlag']_vars
    /\ []((wpc = "done" /\ startPos # targetPos /\ ~sawAbort) =>
             counted + uncounted >= 1)

\* a worker spawned away from its target has run to its exit unaborted and
\* has emitted pulses
C34_Witness ==
    /\ wpc = "done"
    /\ startPos # targetPos
    /\ ~sawAbort
    /\ ~abortFlag
    /\ counted + uncounted >= 1

\* C35: the direction handed to a worker is the sign of target - p, where
\* p is the position the worker starts from (and differs from its target).
C35_DirectionFromStart ==
    (wpc \in {"test", "body", "done"} /\ startPos # targetPos) =>
        motorDirection = (IF targetPos > startPos THEN 1 ELSE -1)

\* C36: under fair scheduling of the worker thread every spawned worker
\* exits, and it has emitted at most |target - start| + budget pulses.
C36_WorkerExits ==
    /\ (wpc = "init") ~> (wpc = "done")
    /\ [](wpc \in {"test", "body", "done"} =>
            counted + uncounted <= AbsDiff(targetPos, startPos) + budget)

\* C37: while the temperature is in alert after a read at which both
\* sensors failed, a run of thermal compensation issues no move: the event
\* loop, idle before the run, is idle after it, with no MoveAbsFocuser in
\* progress.
C37_NoMoveAfterFailedRead ==
    [][(temperatureAlert /\ temperatureAlert' /\ mpc = "idle") =>
          mpc' = "idle"]_vars

\* C38: between two ticks of the light-sensor state machine the acquirer
\* holds no open bus handle: every handle a tick opened was closed before the
\* tick returned.
C38_NoHandleBetweenTicks == tslHandles = 0

====
